---- MODULE Spec2Model ----
(***************************************************************************)
(* Table-aware document chunking of the banking RAG application:           *)
(* BankingDocumentSplitter (lib/document-processor).                       *)
(*                                                                         *)
(* A text is a sequence of one-character strings.  Offsets are the         *)
(* 0-based offsets of the JavaScript source; At and slice convert.         *)
(* One call of splitTextIntoDocuments is a run of the state machine:       *)
(* detection (one step per RegExp.exec call), the two while loops of       *)
(* expandTableContext (one step per loop test), the merge, and the walk    *)
(* over the merged regions (one step per region).                          *)
(*                                                                         *)
(* Calls made one after another on the same splitter restart the machine   *)
(* with the pattern objects as the last call left them.                    *)
(*                                                                         *)
(* Two further state machines share the module: the upload pipeline (the   *)
(* POST route, processDocument and storeChunks, one step per awaited       *)
(* call), and two calls of splitTextIntoDocuments interleaved on the       *)
(* shared splitter (one step per run between suspension points).  Each     *)
(* specification moves its own variables and leaves the others idle.       *)
(***************************************************************************)
EXTENDS Integers, Sequences, FiniteSets, TLC

\* ------------------------------------------------------------ bounds
\* Generated texts are concatenations of at most MaxBlocks blocks.
MaxBlocks == 4
\* The same for the texts of the runs checked for termination.
MaxFairBlocks == 2
\* The same for the arguments of two interleaved calls.
MaxConcBlocks == 1
\* The number of calls made one after another on one splitter.
MaxCalls == 3

\* ------------------------------------------------------------ constants
\* mergeOverlappingSections: "current.start <= last.end + 50".
MergeTolerance == 50
\* createTableChunk: context kept on each side of a table.
ContextChars == 200
\* BankingDocumentSplitter constructor: chunkSize / chunkOverlap.
chunkSize == 1000

\* ------------------------------------------------------------ characters
NL == "\n"
Digits == {"0", "1", "2", "3", "4", "5", "6", "7", "8", "9"}
UpperCase ==
    {"A", "B", "C", "D", "E", "F", "G", "H", "I", "J", "K", "L", "M",
     "N", "O", "P", "Q", "R", "S", "T", "U", "V", "W", "X", "Y", "Z"}
\* \s, restricted to the white space that occurs in texts.
WhiteSpace == {" ", "\t", "\n", "\r"}
\* Line terminators: what "." does not match, and where ^ and $ match
\* under the m flag.
LineTerminators == {"\n", "\r"}
\* [\|\s]
PipeSpaceClass == {"|"} \cup WhiteSpace
\* [-\s\|\:] of the separator pattern, [\|\-\:\s] of isTableLine.
SeparatorClass == {"|", "-", ":"} \cup WhiteSpace

SetMin(S) == CHOOSE x \in S : \A y \in S : x <= y
SetMax(S) == CHOOSE x \in S : \A y \in S : x >= y
Max2(a, b) == IF a >= b THEN a ELSE b
Min2(a, b) == IF a <= b THEN a ELSE b

\* text[i], 0-based.
At(t, i) == t[i + 1]

\* String.prototype.slice(a, b) for 0 <= a: offsets beyond the length are
\* clamped, and b <= a gives the empty string.
slice(t, a, b) == SubSeq(t, Min2(a, Len(t)) + 1, Min2(b, Len(t)))

\* String.prototype.indexOf("\n", from): the first offset >= from that
\* holds a line feed, or -1.
indexOfNL(t, from) ==
    LET R == Max2(from, 0)..(Len(t) - 1)
    IN  IF \E j \in R : At(t, j) = NL
        THEN CHOOSE j \in R :
                 /\ At(t, j) = NL
                 /\ \A m \in Max2(from, 0)..(j - 1) : At(t, m) # NL
        ELSE -1

\* String.prototype.lastIndexOf("\n", from): the search runs backward
\* from min(from, length - 1); a negative from is taken as 0.
lastIndexOfNL(t, from) ==
    LET hi == Min2(Max2(from, 0), Len(t) - 1)
    IN  IF \E j \in 0..hi : At(t, j) = NL
        THEN CHOOSE j \in 0..hi :
                 /\ At(t, j) = NL
                 /\ \A m \in (j + 1)..hi : At(t, m) # NL
        ELSE -1

\* String.prototype.trim().
trim(t) ==
    IF \A k \in 1..Len(t) : t[k] \in WhiteSpace THEN <<>>
    ELSE LET first == CHOOSE j \in 0..(Len(t) - 1) :
                          /\ At(t, j) \notin WhiteSpace
                          /\ \A m \in 0..(j - 1) : At(t, m) \in WhiteSpace
             last == CHOOSE j \in 0..(Len(t) - 1) :
                          /\ At(t, j) \notin WhiteSpace
                          /\ \A m \in (j + 1)..(Len(t) - 1) : At(t, m) \in WhiteSpace
         IN  slice(t, first, last + 1)

\* Whether the literal lit occurs in t at offset i.
HasLiteral(t, i, lit) ==
    /\ i + Len(lit) <= Len(t)
    /\ \A k \in 1..Len(lit) : t[i + k] = lit[k]

\* End of the maximal run of characters of class C that starts at i.
RunEnd(C, t, i) ==
    CHOOSE j \in i..Len(t) :
        /\ j = Len(t) \/ At(t, j) \notin C
        /\ \A m \in i..(j - 1) : At(t, m) \in C

\* The first offset from i on that holds a character of class C, or the
\* length of t.
FirstOf(C, t, i) ==
    CHOOSE j \in i..Len(t) :
        /\ j = Len(t) \/ At(t, j) \in C
        /\ \A m \in i..(j - 1) : At(t, m) \notin C

\* Whether needle occurs in hay (String.prototype.includes).
Includes(hay, needle) ==
    \E i \in 0..(Len(hay) - Len(needle)) : HasLiteral(hay, i, needle)

\* ------------------------------------------------------------ tablePatterns
LitTable == <<"T", "a", "b", "l", "e", " ">>
LitSchedule == <<"S", "c", "h", "e", "d", "u", "l", "e", " ">>
LitExhibit == <<"E", "x", "h", "i", "b", "i", "t", " ">>

\* The patterns of this.tablePatterns, in array order.
PatTable == 1
PatSchedule == 2
PatExhibit == 3
PatRow == 4
PatSeparator == 5
NumPatterns == 5

\* /Table \d+\.\d+/ tried at offset i: the end of the match, or -1.
\* Each \d+ is greedy and is followed by a non-digit, so it takes the
\* whole run of digits.
MatchTable(t, i) ==
    IF ~HasLiteral(t, i, LitTable) THEN -1
    ELSE LET d0 == i + Len(LitTable)
             d1 == RunEnd(Digits, t, d0)
         IN  IF d1 = d0 \/ d1 >= Len(t) THEN -1
             ELSE IF At(t, d1) # "." THEN -1
             ELSE LET d2 == RunEnd(Digits, t, d1 + 1)
                  IN  IF d2 = d1 + 1 THEN -1 ELSE d2

\* /Schedule [A-Z]+/ tried at offset i.
MatchSchedule(t, i) ==
    IF ~HasLiteral(t, i, LitSchedule) THEN -1
    ELSE LET d0 == i + Len(LitSchedule)
             d1 == RunEnd(UpperCase, t, d0)
         IN  IF d1 = d0 THEN -1 ELSE d1

\* /Exhibit \d+/ tried at offset i.
MatchExhibit(t, i) ==
    IF ~HasLiteral(t, i, LitExhibit) THEN -1
    ELSE LET d0 == i + Len(LitExhibit)
             d1 == RunEnd(Digits, t, d0)
         IN  IF d1 = d0 THEN -1 ELSE d1

\* /\|.*\|/ tried at offset i: a pipe at i, and the greedy .* backs up to
\* the last pipe before the next line terminator.
MatchRow(t, i) ==
    IF i >= Len(t) THEN -1
    ELSE IF At(t, i) # "|" THEN -1
    ELSE LET stop == FirstOf(LineTerminators, t, i + 1)
             P == {j \in (i + 1)..(stop - 1) : At(t, j) = "|"}
         IN  IF P = {} THEN -1 ELSE SetMax(P) + 1

\* /^[\|\s]*[-\s\|\:]+[\|\s]*$/m tried at offset i.  ^ holds at 0 and after
\* a line terminator, $ holds at the end and before a line terminator.  The
\* outer classes are subsets of the middle one, so the match is a non-empty
\* run of SeparatorClass characters from i; backtracking from the longest
\* run tries every shorter end, so the match ends at the last offset of the
\* run where $ holds.
MatchSeparator(t, i) ==
    IF i > 0 /\ At(t, i - 1) \notin LineTerminators THEN -1
    ELSE LET r == RunEnd(SeparatorClass, t, i)
             E == {j \in (i + 1)..r :
                      j = Len(t) \/ At(t, j) \in LineTerminators}
         IN  IF E = {} THEN -1 ELSE SetMax(E)

MatchEnd(p, t, i) ==
    CASE p = PatTable -> MatchTable(t, i)
      [] p = PatSchedule -> MatchSchedule(t, i)
      [] p = PatExhibit -> MatchExhibit(t, i)
      [] p = PatRow -> MatchRow(t, i)
      [] p = PatSeparator -> MatchSeparator(t, i)

\* RegExp.prototype.exec of a pattern with the g flag: the search starts at
\* the pattern's lastIndex; a match leaves lastIndex at its end, a failure
\* resets it to 0.
\* The first offset from i on where pattern p matches, or -1.
firstMatch(p, t, i) ==
    LET S == {j \in i..Len(t) : MatchEnd(p, t, j) # -1}
    IN  IF S = {} THEN -1 ELSE SetMin(S)

\* Mutant of exec: a failed match leaves lastIndex where it was.
execKeepLastIndex(p, t, li) ==
    LET i == firstMatch(p, t, li)
    IN  IF i = -1
        THEN [found |-> FALSE, index |-> -1, matchEnd |-> -1, lastIndex |-> li]
        ELSE [found |-> TRUE, index |-> i, matchEnd |-> MatchEnd(p, t, i),
              lastIndex |-> MatchEnd(p, t, i)]

exec(p, t, li) ==
    LET i == firstMatch(p, t, li)
    IN  IF i = -1
        THEN [found |-> FALSE, index |-> -1, matchEnd |-> -1, lastIndex |-> 0]
        ELSE [found |-> TRUE, index |-> i, matchEnd |-> MatchEnd(p, t, i),
              lastIndex |-> MatchEnd(p, t, i)]

\* ------------------------------------------------------------ line helpers
findLineStart(t, index) ==
    LET lineStart == lastIndexOfNL(t, index)
    IN  IF lineStart = -1 THEN 0 ELSE lineStart + 1

findLineEnd(t, index) ==
    LET lineEnd == indexOfNL(t, index)
    IN  IF lineEnd = -1 THEN Len(t) ELSE lineEnd

\* /^[\|\s]*[\|\-\:\s]+[\|\s]*$/.test(line.trim()) || /\|.*\|/.test(line)
isTableLine(line) ==
    \/ LET tr == trim(line)
       IN  /\ Len(tr) >= 1
           /\ \A k \in 1..Len(tr) : tr[k] \in SeparatorClass
    \/ \E i \in 0..(Len(line) - 1) : MatchRow(line, i) # -1

\* ------------------------------------------------------------ merging
\* Array.prototype.sort((a, b) => a.start - b.start): stable, so sections
\* with equal start keep the order in which detection pushed them.
RECURSIVE InsertByStart(_, _)
InsertByStart(sorted, x) ==
    IF sorted = <<>> THEN <<x>>
    ELSE IF sorted[Len(sorted)].start <= x.start THEN Append(sorted, x)
    ELSE Append(InsertByStart(SubSeq(sorted, 1, Len(sorted) - 1), x),
                sorted[Len(sorted)])

RECURSIVE SortByStart(_)
SortByStart(s) ==
    IF s = <<>> THEN <<>>
    ELSE InsertByStart(SortByStart(SubSeq(s, 1, Len(s) - 1)), s[Len(s)])

\* Mutant of withinTolerance: no section is close enough to be merged.
withinToleranceNever(current, last) == FALSE

\* Mutant of withinTolerance: the comparison is strict, so a gap of exactly
\* MergeTolerance no longer merges.
withinToleranceStrict(current, last) == current.start < last.end + MergeTolerance

\* "current.start <= last.end + 50  // Allow small gaps"
withinTolerance(current, last) == current.start <= last.end + MergeTolerance

\* Mutant of joinHeader: the header of the later section replaces the
\* header so far.
joinHeaderKeepLast(lastHeader, currentHeader) == currentHeader

\* The merged header: last.header += `, ${current.header}`
joinHeader(lastHeader, currentHeader) ==
    lastHeader \o <<",", " ">> \o currentHeader

\* The for loop of mergeOverlappingSections from index i (1-based here).
RECURSIVE mergeLoop(_, _, _)
mergeLoop(merged, sorted, i) ==
    IF i > Len(sorted) THEN merged
    ELSE LET current == sorted[i]
             last == merged[Len(merged)]
         IN  IF withinTolerance(current, last)
             THEN mergeLoop(
                    [merged EXCEPT ![Len(merged)] =
                        [start |-> last.start,
                         end |-> Max2(last.end, current.end),
                         header |-> joinHeader(last.header, current.header)]],
                    sorted, i + 1)
             ELSE mergeLoop(Append(merged, current), sorted, i + 1)

\* Mutant of mergeOverlappingSections: the sections are returned as they
\* were pushed, neither sorted nor merged.
mergeSkipped(sections) == sections

mergeOverlappingSections(sections) ==
    IF sections = <<>> THEN <<>>
    ELSE LET sorted == SortByStart(sections)
         IN  mergeLoop(<<sorted[1]>>, sorted, 2)

\* ------------------------------------------------------------ detection as a function
\* findTableSections is synchronous: nothing else runs between its entry and
\* its return.  The operators below compute a whole call of it, for the
\* places where the call is one step.

\* F applied to the value of x, with x evaluated once.
With(x, F(_)) == CHOOSE y \in {F(v) : v \in {x}} : TRUE

\* lastIndex of every pattern object of a fresh splitter.
FreshLastIndex == [p \in 1..NumPatterns |-> 0]

\* The backward while loop of expandTableContext from the loop state
\* (start, prevLine): the start it leaves with, or -1 when the body brings
\* the loop back to a state it was in before, after which it never leaves.
RECURSIVE backwardLoop(_, _, _, _)
backwardLoop(t, start, prevLine, seen) ==
    IF ~(/\ prevLine > 0
         /\ isTableLine(slice(t, prevLine, findLineEnd(t, prevLine))))
    THEN start
    ELSE LET start2 == prevLine
             prevLine2 == findLineStart(t, start2 - 1)
         IN  IF <<start2, prevLine2>> \in seen THEN -1
             ELSE backwardLoop(t, start2, prevLine2,
                               seen \cup {<<start2, prevLine2>>})

\* The forward while loop of expandTableContext from (end, nextLine): the
\* end it leaves with.  nextLine grows with every body, so the loop leaves.
RECURSIVE forwardLoop(_, _, _)
forwardLoop(t, end, nextLine) ==
    IF ~(/\ nextLine < Len(t)
         /\ isTableLine(slice(t, findLineStart(t, nextLine), nextLine)))
    THEN end
    ELSE forwardLoop(t, nextLine, findLineEnd(t, nextLine + 1))

\* expandTableContext(text, startIndex): {start, end}, or returns = FALSE
\* when the call never returns.
expandTableContext(t, startIndex) ==
    LET start == backwardLoop(t, startIndex, findLineStart(t, startIndex), {})
    IN  IF start = -1
        THEN [returns |-> FALSE, start |-> -1, end |-> -1]
        ELSE [returns |-> TRUE, start |-> start,
              end |-> forwardLoop(t, startIndex, findLineEnd(t, startIndex))]

\* The for loop of findTableSections from pattern p on, with li the
\* lastIndex of the pattern objects and secs the sections pushed so far.
RECURSIVE detectFrom(_, _, _, _)
detectFrom(pArg, t, liArg, secsArg) ==
    With([p |-> pArg, li |-> liArg, secs |-> secsArg], LAMBDA a :
        IF a.p > NumPatterns
        THEN [returns |-> TRUE, sections |-> a.secs, lastIndex |-> a.li]
        ELSE With(exec(a.p, t, a.li[a.p]), LAMBDA r :
            IF ~r.found
            THEN detectFrom(a.p + 1, t, [a.li EXCEPT ![a.p] = r.lastIndex], a.secs)
            ELSE With(expandTableContext(t, r.index), LAMBDA x :
                IF ~x.returns
                THEN [returns |-> FALSE, sections |-> a.secs,
                      lastIndex |-> [a.li EXCEPT ![a.p] = r.lastIndex]]
                ELSE detectFrom(a.p, t, [a.li EXCEPT ![a.p] = r.lastIndex],
                         Append(a.secs, [start |-> x.start, end |-> x.end,
                                         header |-> slice(t, r.index, r.matchEnd)])))))

\* findTableSections(text) on a splitter whose pattern objects hold the
\* lastIndex values li: whether it returns, the merged regions it returns,
\* and the lastIndex values it leaves.
findTableSections(t, li) ==
    With(detectFrom(1, t, li, <<>>), LAMBDA d :
        [returns |-> d.returns,
         regions |-> IF d.returns THEN mergeOverlappingSections(d.sections) ELSE <<>>,
         lastIndex |-> d.lastIndex])

\* ------------------------------------------------------------ chunks
TableOpen == <<"\n", "\n", "[", "T", "A", "B", "L", "E", ":", " ">>
TableClose == <<"\n", "[", "E", "N", "D", " ", "T", "A", "B", "L", "E", "]", "\n", "\n">>

\* Mutant of contextBeforeFrom: the context reaches back to the start of
\* the text.
contextBeforeWhole(start) == 0

\* Offsets of the context before and after a region [start, end).
contextBeforeFrom(start) == Max2(0, start - ContextChars)
contextAfterTo(t, end) == Min2(Len(t), end + ContextChars)

\* createTableChunk.  src, ctxFrom and ctxTo record the source offsets the
\* chunk was cut from: [src[1], src[2]) is the raw table text, and
\* [ctxFrom, ctxTo) is everything the content quotes.
createTableChunk(t, start, end, header) ==
    LET tableText == slice(t, start, end)
        contextBefore == slice(t, contextBeforeFrom(start), start)
        contextAfter == slice(t, end, contextAfterTo(t, end))
    IN  [pageContent |-> contextBefore \o TableOpen \o header \o <<"]", "\n">>
                           \o tableText \o TableClose \o contextAfter,
         metadata |-> [type |-> "table", header |-> header,
                       table_content |-> tableText],
         src |-> <<start, end>>,
         ctxFrom |-> contextBeforeFrom(start),
         ctxTo |-> contextAfterTo(t, end)]

\* Mutant of createDocuments: a chunk that is empty after trimming is kept.
createDocumentsKeepEmpty(str) ==
    <<[pageContent |-> trim(str), metadata |-> [type |-> "text"]]>>

\* super.createDocuments([str]) of the generic recursive splitter, for a
\* string no longer than chunkSize (every text of this model): the pieces
\* are merged back into one chunk, which is trimmed, and a chunk that is
\* empty after trimming is dropped.
createDocuments(str) ==
    IF trim(str) = <<>> THEN <<>>
    ELSE <<[pageContent |-> trim(str), metadata |-> [type |-> "text"]]>>

\* The chunks of createDocuments on text.slice(from, to), with the source
\* offsets of the slice recorded on each.
splitSpan(t, from, to) ==
    LET docs == createDocuments(slice(t, from, to))
    IN  [i \in 1..Len(docs) |->
            [pageContent |-> docs[i].pageContent, metadata |-> docs[i].metadata,
             src |-> <<from, to>>, ctxFrom |-> from, ctxTo |-> to]]

\* Mutant of fastPathChunks: a text without tables yields no chunk.
fastPathEmpty(t) == <<>>

\* "if (tableMatches.length === 0) return await super.createDocuments([text])"
fastPathChunks(t) == splitSpan(t, 0, Len(t))

\* One iteration of the for loop of splitTextIntoDocuments.
\* "if (tableMatch.start > lastIndex)": the span split before the region;
\* <<>> when there is none.
beforeTableSpan(lastIdx, tableMatch) ==
    IF tableMatch.start > lastIdx THEN <<<<lastIdx, tableMatch.start>>>> ELSE <<>>

\* Mutant of pushRegionChunks: the table chunk is pushed before the chunks
\* of the text that precedes it.
pushTableFirst(chs, beforeChunks, tableChunk) ==
    chs \o <<tableChunk>> \o beforeChunks

\* chunks.push(...beforeChunks); chunks.push(tableChunk)
pushRegionChunks(chs, beforeChunks, tableChunk) ==
    chs \o beforeChunks \o <<tableChunk>>

\* Mutant of nextLastIndex: the cursor is never moved.
nextLastIndexZero(tableMatch) == 0

\* Mutant of nextLastIndex: the cursor is left at the start of the region.
nextLastIndexAtStart(tableMatch) == tableMatch.start

\* "lastIndex = tableMatch.end"
nextLastIndex(tableMatch) == tableMatch.end

\* Mutant of remainingSpan: the remaining text is cut one character late.
remainingSpanLate(t, lastIdx) ==
    IF lastIdx < Len(t) THEN <<<<lastIdx + 1, Len(t)>>>> ELSE <<>>

\* "if (lastIndex < text.length)": the span split after the last region.
remainingSpan(t, lastIdx) ==
    IF lastIdx < Len(t) THEN <<<<lastIdx, Len(t)>>>> ELSE <<>>

\* ------------------------------------------------------------ input texts
Caption == <<"T", "a", "b", "l", "e", " ", "1", ".", "1">>
Row == <<"|", "a", "|">>
SepRow == <<"-", "-">>
\* Prose that puts the next block exactly MergeTolerance after the start of
\* a caption, and one character further.
PadGap == [i \in 1..(MergeTolerance - Len(Caption)) |-> "x"]
PadGapPlus == PadGap \o <<"x">>

Blocks == {Caption, Row, SepRow, <<NL>>, <<" ">>, PadGap, PadGapPlus}

RECURSIVE TextsUpTo(_)
TextsUpTo(n) ==
    IF n = 0 THEN {<<>>}
    ELSE LET shorter == TextsUpTo(n - 1)
         IN  shorter \cup {t \o b : t \in shorter, b \in Blocks}

\* The scenario of the specification's section 8.
ScenarioText ==
    <<"I", "n", "t", "r", "o", " ", "p", "a", "r", "a", "g", "r", "a", "p", "h", ".",
      "\n", "\n", "T", "a", "b", "l", "e", " ", "2", ".", "1", "\n", "|", " ", "R", "a",
      "t", "e", " ", "|", " ", "T", "e", "r", "m", " ", "|", "\n", "|", "-", "-", "-",
      "-", "-", "-", "|", "-", "-", "-", "-", "-", "-", "|", "\n", "|", " ", "3", ".",
      "5", "%", " ", "|", " ", "3", "0", "y", "r", " ", "|", "\n", "\n", "C", "l", "o",
      "s", "i", "n", "g", " ", "p", "a", "r", "a", "g", "r", "a", "p", "h", ".">>

\* The merge-tolerance example of the specification's section 8.
MergeExampleText ==
    <<"T", "a", "b", "l", "e", " ", "1", ".", "1", "\n", "|", "A", "|", "B", "|", "\n",
      "|", "1", "|", "2", "|", "\n", "\n", "c", "o", "n", "t", "e", "x", "t", "\n", "\n",
      "S", "c", "h", "e", "d", "u", "l", "e", " ", "A", "\n", "|", "C", "|", "D", "|",
      "\n">>

\* Captions of the other two kinds inside one line of prose.
CaptionsText ==
    <<"s", "e", "e", " ", "E", "x", "h", "i", "b", "i", "t", " ", "2", " ",
      "o", "f", " ", "S", "c", "h", "e", "d", "u", "l", "e", " ", "A", "B">>

\* Three captions: the second starts MergeTolerance after the first, the
\* third MergeTolerance + 1 after the second.
ToleranceText == Caption \o PadGap \o Caption \o PadGapPlus \o Caption

\* Four captions: each of the second and the third starts MergeTolerance
\* after the one before, the fourth MergeTolerance + 1 after the third.
ChainText ==
    Caption \o PadGap \o Caption \o PadGap \o Caption \o PadGapPlus \o Caption

\* Prose of words, spaces and line breaks, with a line that holds only a
\* space.
ProseText == <<"a", " ", "b", "\n", " ", "\n", "c", " ", "d">>

\* Pipe-delimited lines with two, one and three columns, without separator
\* row and without caption.
IrregularText ==
    <<"|", "a", "|", "b", "|", "\n", "|", "c", "|", "\n",
      "|", "d", "|", "e", "|", "f", "|">>

\* A caption with more than ContextChars of prose on each side.
LongPad == [i \in 1..(ContextChars + 1) |-> "x"]
LongContextText == LongPad \o Caption \o LongPad

FixedTexts == {ScenarioText, MergeExampleText, CaptionsText, ToleranceText, ChainText,
               ProseText, IrregularText, LongContextText}

\* String(undefined): what RegExp.prototype.exec searches when it is handed
\* undefined.
UndefinedAsString == <<"u", "n", "d", "e", "f", "i", "n", "e", "d">>

\* The two calls that share the splitter of the documentProcessor singleton.
CallIds == {1, 2}

\* Every text is within chunkSize, the range createDocuments is modelled for.
Texts == {t \in TextsUpTo(MaxBlocks) \cup FixedTexts : Len(t) <= chunkSize}

\* ------------------------------------------------------------ upload pipeline
\* Mutant of batchSize: batches of one chunk more.
batchSizeEleven == 10 + 1

\* storeChunks: "const batchSize = 10".
batchSize == 10
\* createChunks returns at most this many chunks.
MaxStoreChunks == 21

\* Mutant of isBankingDocument: every document type is a banking type.
isBankingDocumentAny(documentType) == TRUE

\* isBankingDocument.
bankingTypes ==
    {"loan_handbook", "regulatory_manual", "policy_document", "rate_sheet",
     "compliance_matrix"}
isBankingDocument(documentType) == documentType \in bankingTypes

\* The j-th chunk (1-based) of a long document: contents that differ from
\* chunk to chunk; text chunks and table chunks alike from the table
\* splitter, text chunks from the standard splitter.
ChunkOf(splitter, j) ==
    [pageContent |-> <<"c", j>>,
     metadata |-> [type |-> IF splitter = "tableSplitter" /\ j % 3 = 0
                            THEN "table" ELSE "text"]]

\* ollamaEmbeddings.embedDocuments(texts): one embedding per text.
embedDocuments(texts) == [j \in 1..Len(texts) |-> <<"embedding", texts[j]>>]

\* Mutant of chunkIndex: the position inside the batch.
chunkIndexInBatch(i, index) == index

\* "chunk_index: i + index"
chunkIndex(i, index) == i + index

\* The chunkRecords of the batch that starts at chunk i (0-based).
chunkRecords(documentId, batch, embeddings, i) ==
    [j \in 1..Len(batch) |->
        [document_id |-> documentId,
         content |-> batch[j].pageContent,
         embedding |-> embeddings[j],
         chunk_index |-> chunkIndex(i, j - 1),
         metadata |-> batch[j].metadata]]

\* Mutant of routeStatus: the route answers with success whatever
\* processDocument did.
routeStatusSuccess(result) == 200

\* The POST route after processDocument: the success response when the
\* promise resolved, status 500 from the catch block when it rejected.
routeStatus(result) == IF result = "resolved" THEN 200 ELSE 500

\* ------------------------------------------------------------ one call between suspensions
\* splitTextIntoDocuments only suspends at its awaits of createDocuments.
\* A call's locals at a suspension are [pc, k, lastIndex, chunks].

\* The for-of loop from region k on, up to the next await or the return: an
\* iteration with no text before its region runs through without
\* suspending.
RECURSIVE runToAwait(_, _, _, _, _)
runToAwait(t, matches, k, lastIdx, chs) ==
    IF k > Len(matches)
    THEN [pc |-> IF remainingSpan(t, lastIdx) = <<>> THEN "done" ELSE "awaitRest",
          k |-> k, lastIndex |-> lastIdx, chunks |-> chs]
    ELSE IF beforeTableSpan(lastIdx, matches[k]) # <<>>
    THEN [pc |-> "awaitBefore", k |-> k, lastIndex |-> lastIdx, chunks |-> chs]
    ELSE runToAwait(t, matches, k + 1, nextLastIndex(matches[k]),
                    pushRegionChunks(chs, <<>>,
                        createTableChunk(t, matches[k].start, matches[k].end,
                                         matches[k].header)))

\* From the return of findTableSections to the first await.
afterDetection(t, matches) ==
    IF matches = <<>>
    THEN [pc |-> "awaitFast", k |-> 1, lastIndex |-> 0, chunks |-> <<>>]
    ELSE runToAwait(t, matches, 1, 0, <<>>)

\* From the completion of the awaited createDocuments to the next await or
\* the return.
resumeCall(t, matches, st) ==
    IF st.pc = "awaitFast"
    THEN [pc |-> "done", k |-> st.k, lastIndex |-> st.lastIndex,
          chunks |-> fastPathChunks(t)]
    ELSE IF st.pc = "awaitBefore"
    THEN LET tableMatch == matches[st.k]
             before == beforeTableSpan(st.lastIndex, tableMatch)
         IN  runToAwait(t, matches, st.k + 1, nextLastIndex(tableMatch),
                 pushRegionChunks(st.chunks,
                     splitSpan(t, before[1][1], before[1][2]),
                     createTableChunk(t, tableMatch.start, tableMatch.end,
                                      tableMatch.header)))
    ELSE LET rest == remainingSpan(t, st.lastIndex)
         IN  [pc |-> "done", k |-> st.k, lastIndex |-> st.lastIndex,
              chunks |-> st.chunks \o splitSpan(t, rest[1][1], rest[1][2])]

\* A call run with nothing in between, from the state st at a suspension.
RECURSIVE runOn(_, _, _)
runOn(t, matches, stArg) ==
    With(stArg, LAMBDA st :
        IF st.pc = "done" THEN st.chunks
        ELSE runOn(t, matches, resumeCall(t, matches, st)))

\* splitTextIntoDocuments(t) run alone on a fresh splitter: whether it
\* returns, and the chunks it returns.
splitAlone(t) ==
    With(findTableSections(t, FreshLastIndex), LAMBDA d :
        [returns |-> d.returns,
         chunks |-> IF d.returns
                    THEN runOn(t, d.regions, afterDetection(t, d.regions))
                    ELSE <<>>])

\* ------------------------------------------------------------ state
VARIABLES
    text,          \* the argument of splitTextIntoDocuments
    pc,            \* where the call stands
    pat,           \* findTableSections: index of the pattern of the for loop
    patLastIndex,  \* lastIndex of each pattern object of this.tablePatterns
    startIndex,    \* expandTableContext: its argument, match.index
    matched,       \* match[0] of the current match
    start,         \* expandTableContext locals
    prevLine,
    end,
    nextLine,
    loopParity,    \* history: parity of the loop bodies expandTableContext ran
    sections,      \* findTableSections: the regions as detection pushed them
    seeds,         \* history: <<match.index, match[0]>> of every match
    tableMatches,  \* the merged regions findTableSections returns
    k,             \* splitTextIntoDocuments: index of the for-of loop
    lastIndex,     \* splitTextIntoDocuments: the emission cursor
    chunks,        \* the chunks pushed so far; the result once pc = "done"
    calls,         \* history: the spans cut from the text, in order
    textIsString,  \* whether the argument is a string; text is String(argument)
    returned,      \* history: text and result of the earlier calls on the splitter
    \* the upload pipeline
    uReq,          \* the form data of the POST request
    uText,         \* processDocument: the text extractText returned
    uPc,           \* where the request stands
    uDocs,         \* rows of the documents table
    uChunks,       \* processDocument: the chunks createChunks returned
    uSplitter,     \* history: the splitter createChunks used
    uI,            \* storeChunks: i of the for loop
    uEmb,          \* storeChunks: the embeddings of the current batch
    uRows,         \* rows of the document_chunks table
    uResult,       \* the promise of processDocument
    uThrewAt,      \* history: the step that raised the error
    uStoreCalled,  \* history: whether storeChunks was called
    uResponse,     \* status of the response of the route; 0 while there is none
    \* two calls on the shared splitter
    cText,         \* the argument of each call
    cPc,           \* where each call stands
    cMatches,      \* tableMatches of each call
    cK,            \* index of the for-of loop of each call
    cLast,         \* lastIndex (the emission cursor) of each call
    cChunks,       \* chunks of each call; its result once cPc = "done"
    cHung          \* the call that is inside a loop it never leaves; 0 if none

uploadVars == <<uReq, uText, uPc, uDocs, uChunks, uSplitter, uI, uEmb, uRows, uResult,
                uThrewAt, uStoreCalled, uResponse>>
concVars == <<cText, cPc, cMatches, cK, cLast, cChunks, cHung>>

vars == <<text, pc, pat, patLastIndex, startIndex, matched, start, prevLine,
          end, nextLine, loopParity, sections, seeds, tableMatches, k, lastIndex, chunks,
          calls, textIsString, returned, uploadVars, concVars>>

expandVars == <<startIndex, matched, start, prevLine, end, nextLine>>
emitVars == <<tableMatches, k, lastIndex, chunks, calls>>

\* The texts of the runs checked for termination: all but the long one,
\* which has a single caption.
FairTexts ==
    {t \in TextsUpTo(MaxFairBlocks) \cup (FixedTexts \ {LongContextText}) :
        Len(t) <= chunkSize}

\* Everything of one call of splitTextIntoDocuments but the state of the
\* pattern objects and the loop history.
callLocals == <<text, pc, pat, expandVars, sections, seeds, emitVars, textIsString,
                returned>>

\* The upload pipeline at position at, with a request of R.
UploadAt(R, at) ==
    /\ uReq \in R
    /\ uText = <<>>
    /\ uPc = at
    /\ uDocs = <<>>
    /\ uChunks = <<>>
    /\ uSplitter = "none"
    /\ uI = 0
    /\ uEmb = <<>>
    /\ uRows = <<>>
    /\ uResult = "pending"
    /\ uThrewAt = "none"
    /\ uStoreCalled = FALSE
    /\ uResponse = 0

\* No upload request is under way.
UploadIdle ==
    UploadAt({[file |-> FALSE, documentType |-> "", typeAllowed |-> FALSE,
               tooLarge |-> FALSE, extension |-> ""]}, "idle")

\* Two calls on the shared splitter at position at, with arguments of T.
ConcAt(T, at) ==
    /\ cText \in [CallIds -> T]
    /\ cPc = [c \in CallIds |-> at]
    /\ cMatches = [c \in CallIds |-> <<>>]
    /\ cK = [c \in CallIds |-> 1]
    /\ cLast = [c \in CallIds |-> 0]
    /\ cChunks = [c \in CallIds |-> <<>>]
    /\ cHung = 0

\* No pair of interleaved calls is under way.
ConcIdle == ConcAt({<<>>}, "idle")

\* The state at the call of splitTextIntoDocuments on a fresh splitter, with
\* an argument whose string value is in T.
InitCall(T, isString) ==
    /\ text \in T
    /\ textIsString = isString
    /\ UploadIdle
    /\ ConcIdle
    /\ pc = "find"
    /\ pat = 1
    /\ patLastIndex = [p \in 1..NumPatterns |-> 0]
    /\ startIndex = 0
    /\ matched = <<>>
    /\ start = 0
    /\ prevLine = 0
    /\ end = 0
    /\ nextLine = 0
    /\ loopParity = 0
    /\ sections = <<>>
    /\ seeds = <<>>
    /\ tableMatches = <<>>
    /\ k = 1
    /\ lastIndex = 0
    /\ chunks = <<>>
    /\ calls = <<>>
    /\ returned = <<>>

InitWith(T) == InitCall(T, TRUE)

\* The argument is a text, or it is undefined.
Init == InitWith(Texts) \/ InitCall({UndefinedAsString}, FALSE)

\* findTableSections: one pattern.exec(text) of the while loop.  A match
\* enters expandTableContext(text, match.index) up to its first loop test; a
\* null ends the while loop and moves to the next pattern, or to the merge.
Exec ==
    /\ pc = "find"
    /\ LET r == exec(pat, text, patLastIndex[pat])
       IN  /\ patLastIndex' = [patLastIndex EXCEPT ![pat] = r.lastIndex]
           /\ IF r.found
              THEN /\ startIndex' = r.index
                   /\ matched' = slice(text, r.index, r.matchEnd)
                   /\ seeds' = Append(seeds, <<r.index, slice(text, r.index, r.matchEnd)>>)
                   /\ start' = r.index
                   /\ prevLine' = findLineStart(text, r.index)
                   /\ pc' = "expandBack"
                   /\ UNCHANGED <<pat, end, nextLine>>
              ELSE /\ IF pat < NumPatterns
                      THEN pat' = pat + 1 /\ pc' = "find"
                      ELSE pat' = pat /\ pc' = "merge"
                   /\ UNCHANGED <<expandVars, seeds>>
    /\ UNCHANGED <<text, loopParity, sections, emitVars>>
    /\ UNCHANGED <<textIsString, returned, uploadVars, concVars>>

\* expandTableContext: one test of the backward while loop, and its body
\* when the test holds; when it fails, the forward loop is set up.
ExpandBack ==
    /\ pc = "expandBack"
    /\ IF /\ prevLine > 0
          /\ isTableLine(slice(text, prevLine, findLineEnd(text, prevLine)))
       THEN /\ start' = prevLine
            /\ prevLine' = findLineStart(text, prevLine - 1)
            /\ loopParity' = 1 - loopParity
            /\ UNCHANGED <<pc, end, nextLine>>
       ELSE /\ end' = startIndex
            /\ nextLine' = findLineEnd(text, startIndex)
            /\ pc' = "expandFwd"
            /\ UNCHANGED <<start, prevLine, loopParity>>
    /\ UNCHANGED <<text, pat, patLastIndex, startIndex, matched, sections,
                   seeds, emitVars>>
    /\ UNCHANGED <<textIsString, returned, uploadVars, concVars>>

\* expandTableContext: one test of the forward while loop, and its body when
\* the test holds; when it fails, {start, end} is returned and the section
\* is pushed with match[0] as its header.
ExpandFwd ==
    /\ pc = "expandFwd"
    /\ IF /\ nextLine < Len(text)
          /\ isTableLine(slice(text, findLineStart(text, nextLine), nextLine))
       THEN /\ end' = nextLine
            /\ nextLine' = findLineEnd(text, nextLine + 1)
            /\ loopParity' = 1 - loopParity
            /\ UNCHANGED <<pc, sections>>
       ELSE /\ sections' = Append(sections,
                              [start |-> start, end |-> end, header |-> matched])
            /\ pc' = "find"
            /\ UNCHANGED <<end, nextLine, loopParity>>
    /\ UNCHANGED <<text, pat, patLastIndex, startIndex, matched, start,
                   prevLine, seeds, emitVars>>
    /\ UNCHANGED <<textIsString, returned, uploadVars, concVars>>

\* findTableSections returns mergeOverlappingSections(sections).  (The
\* source sorts and merges the array in place; sections is kept here as
\* detection pushed it.)
Merge ==
    /\ pc = "merge"
    /\ tableMatches' = mergeOverlappingSections(sections)
    /\ pc' = "split"
    /\ UNCHANGED <<text, pat, patLastIndex, expandVars, loopParity, sections,
                   seeds, k, lastIndex, chunks, calls>>
    /\ UNCHANGED <<textIsString, returned, uploadVars, concVars>>

\* splitTextIntoDocuments with no table match: the generic splitter on the
\* whole text.  Handed an argument that is not a string, the generic
\* splitter reads a property of it and throws a TypeError.
FastPath ==
    /\ pc = "split"
    /\ tableMatches = <<>>
    /\ IF textIsString
       THEN chunks' = fastPathChunks(text) /\ pc' = "done"
       ELSE chunks' = chunks /\ pc' = "threw"
    /\ calls' = Append(calls, [kind |-> "split", from |-> 0, to |-> Len(text)])
    /\ UNCHANGED <<text, pat, patLastIndex, expandVars, loopParity, sections,
                   seeds, tableMatches, k, lastIndex>>
    /\ UNCHANGED <<textIsString, returned, uploadVars, concVars>>

\* One iteration of the for-of loop: the text before the region, and the
\* region's table chunk.
EmitRegion ==
    /\ pc = "split"
    /\ tableMatches # <<>>
    /\ k <= Len(tableMatches)
    /\ LET tableMatch == tableMatches[k]
           before == beforeTableSpan(lastIndex, tableMatch)
           beforeChunks ==
               IF before = <<>> THEN <<>>
               ELSE splitSpan(text, before[1][1], before[1][2])
           tableChunk == createTableChunk(text, tableMatch.start,
                                          tableMatch.end, tableMatch.header)
       IN  /\ chunks' = pushRegionChunks(chunks, beforeChunks, tableChunk)
           /\ calls' = calls
                \o [i \in 1..Len(before) |->
                       [kind |-> "split", from |-> before[i][1], to |-> before[i][2]]]
                \o <<[kind |-> "table", from |-> tableMatch.start,
                      to |-> tableMatch.end]>>
           /\ lastIndex' = nextLastIndex(tableMatch)
    /\ k' = k + 1
    /\ UNCHANGED <<text, pc, pat, patLastIndex, expandVars, loopParity,
                   sections, seeds, tableMatches>>
    /\ UNCHANGED <<textIsString, returned, uploadVars, concVars>>

\* After the loop: the remaining text, and the return.
EmitRemaining ==
    /\ pc = "split"
    /\ tableMatches # <<>>
    /\ k > Len(tableMatches)
    /\ LET rest == remainingSpan(text, lastIndex)
       IN  /\ chunks' = chunks \o
                (IF rest = <<>> THEN <<>>
                 ELSE splitSpan(text, rest[1][1], rest[1][2]))
           /\ calls' = calls \o [i \in 1..Len(rest) |->
                  [kind |-> "split", from |-> rest[i][1], to |-> rest[i][2]]]
    /\ pc' = "done"
    /\ UNCHANGED <<text, pat, patLastIndex, expandVars, loopParity, sections,
                   seeds, tableMatches, k, lastIndex>>
    /\ UNCHANGED <<textIsString, returned, uploadVars, concVars>>

Next == Exec \/ ExpandBack \/ ExpandFwd \/ Merge \/ FastPath \/ EmitRegion
           \/ EmitRemaining

Spec == Init /\ [][Next]_vars

\* The call runs on: each step that is enabled is eventually taken.
FairInit == InitWith(FairTexts)
FairSpec == FairInit /\ [][Next]_vars /\ WF_vars(Next)

\* ------------------------------------------------------------ calls in sequence
\* The texts of calls made one after another on the splitter.
SeqTexts ==
    {<<>>, Caption, Row, SepRow, <<" ">>, ScenarioText, MergeExampleText,
     CaptionsText, ToleranceText}

\* The call has returned and the caller calls splitTextIntoDocuments again
\* on the same splitter: the locals are those of a new call, the pattern
\* objects are the instance's, left as the last call left them.
CallAgain ==
    /\ pc = "done"
    /\ Len(returned) < MaxCalls - 1
    /\ returned' = Append(returned, [text |-> text, chunks |-> chunks])
    /\ text' \in SeqTexts
    /\ pc' = "find"
    /\ pat' = 1
    /\ startIndex' = 0
    /\ matched' = <<>>
    /\ start' = 0
    /\ prevLine' = 0
    /\ end' = 0
    /\ nextLine' = 0
    /\ sections' = <<>>
    /\ seeds' = <<>>
    /\ tableMatches' = <<>>
    /\ k' = 1
    /\ lastIndex' = 0
    /\ chunks' = <<>>
    /\ calls' = <<>>
    /\ UNCHANGED <<patLastIndex, loopParity, textIsString, uploadVars, concVars>>

SeqInit == InitWith(SeqTexts)
SeqNext == Next \/ CallAgain
SeqSpec == SeqInit /\ [][SeqNext]_vars

\* ------------------------------------------------------------ upload pipeline: steps
\* A text longer than the texts whose splitting is computed; of its
\* chunks only the number and the kinds are modelled.
LongDocument == <<"...">>

\* The texts extractText returns.
UploadTexts ==
    {<<>>, Caption, Row, ProseText, CaptionsText, ScenarioText, LongDocument}

\* createChunks(text, documentType): the splitter it calls, whether the
\* call returns, and the chunks it returns.
createChunks(t, documentType) ==
    IF isBankingDocument(documentType)
    THEN With(splitAlone(t), LAMBDA r :
             [splitter |-> "tableSplitter", returns |-> r.returns,
              chunks |-> r.chunks])
    ELSE [splitter |-> "standardSplitter", returns |-> TRUE,
          chunks |-> createDocuments(t)]

\* No call of the step-by-step splitter is under way; the pattern objects
\* are those of a fresh splitter.
SplitterIdle ==
    /\ text = <<>>
    /\ textIsString = TRUE
    /\ pc = "idle"
    /\ pat = 1
    /\ patLastIndex = FreshLastIndex
    /\ startIndex = 0
    /\ matched = <<>>
    /\ start = 0
    /\ prevLine = 0
    /\ end = 0
    /\ nextLine = 0
    /\ loopParity = 0
    /\ sections = <<>>
    /\ seeds = <<>>
    /\ tableMatches = <<>>
    /\ k = 1
    /\ lastIndex = 0
    /\ chunks = <<>>
    /\ calls = <<>>
    /\ returned = <<>>

\* The form data of a request: whether a file came with it, the document
\* type ("" when missing), whether file.type is one of allowedTypes,
\* whether file.size exceeds maxSize, and the extension of file.name.
DocumentTypes == bankingTypes \cup {"", "general"}
Extensions == {"txt", "pdf", "exe"}
Requests ==
    [file : BOOLEAN, documentType : DocumentTypes, typeAllowed : BOOLEAN,
     tooLarge : BOOLEAN, extension : Extensions]

\* uuidv4() of processDocument; one request, one id.
DocumentId == "doc"

UploadInit == SplitterIdle /\ ConcIdle /\ UploadAt(Requests, "post")

\* POST: the validation of the form data, up to the call of
\* processDocument.
PostValidate ==
    /\ uPc = "post"
    /\ IF \/ ~uReq.file
          \/ uReq.documentType = ""
          \/ ~uReq.typeAllowed
          \/ uReq.tooLarge
       THEN uResponse' = 400 /\ uPc' = "responded"
       ELSE uResponse' = uResponse /\ uPc' = "extract"
    /\ UNCHANGED <<uReq, uText, uDocs, uChunks, uSplitter, uI, uEmb, uRows, uResult,
                   uThrewAt, uStoreCalled>>
    /\ UNCHANGED <<callLocals, patLastIndex, loopParity, concVars>>

\* processDocument: await this.extractText(...).  A txt file is decoded, a
\* pdf is parsed or the parser throws, another extension throws.
ExtractText ==
    /\ uPc = "extract"
    /\ \E parsed \in BOOLEAN :
           IF uReq.extension = "txt" \/ (uReq.extension = "pdf" /\ parsed)
           THEN /\ uText' \in UploadTexts
                /\ uPc' = "record"
                /\ uThrewAt' = uThrewAt
           ELSE /\ uText' = uText
                /\ uPc' = "catch"
                /\ uThrewAt' = "extract"
    /\ UNCHANGED <<uReq, uDocs, uChunks, uSplitter, uI, uEmb, uRows, uResult,
                   uStoreCalled, uResponse>>
    /\ UNCHANGED <<callLocals, patLastIndex, loopParity, concVars>>

\* processDocument: await this.createDocumentRecord(...).  The insert
\* stores the row, or reports an error, which is thrown.
CreateDocumentRecord ==
    /\ uPc = "record"
    /\ \E inserted \in BOOLEAN :
           IF inserted
           THEN /\ uDocs' = Append(uDocs, [id |-> DocumentId,
                                          document_type |-> uReq.documentType,
                                          status |-> "active"])
                /\ uPc' = "chunk"
                /\ uThrewAt' = uThrewAt
           ELSE /\ uDocs' = uDocs
                /\ uPc' = "catch"
                /\ uThrewAt' = "record"
    /\ UNCHANGED <<uReq, uText, uChunks, uSplitter, uI, uEmb, uRows, uResult,
                   uStoreCalled, uResponse>>
    /\ UNCHANGED <<callLocals, patLastIndex, loopParity, concVars>>

\* processDocument: await this.createChunks(text, documentType), and on its
\* return the call of storeChunks up to its first loop test.  The splitter
\* throws, or never returns (the table splitter, inside a loop it does not
\* leave), or returns its chunks: those of the text, or some number of
\* chunks of a long document.
CreateChunks ==
    /\ uPc = "chunk"
    /\ \E r \in {createChunks(uText, uReq.documentType)} :
           /\ uSplitter' = r.splitter
           /\ \E threw \in BOOLEAN : \E n \in 1..MaxStoreChunks :
                  IF threw
                  THEN /\ uPc' = "catch"
                       /\ uThrewAt' = "chunk"
                       /\ UNCHANGED <<uChunks, uStoreCalled>>
                  ELSE IF ~r.returns
                  THEN /\ uPc' = "chunking"
                       /\ UNCHANGED <<uChunks, uStoreCalled, uThrewAt>>
                  ELSE /\ uChunks' = IF uText = LongDocument
                                     THEN [j \in 1..n |-> ChunkOf(r.splitter, j)]
                                     ELSE r.chunks
                       /\ uStoreCalled' = TRUE
                       /\ uPc' = "store"
                       /\ uThrewAt' = uThrewAt
    /\ UNCHANGED <<uReq, uText, uDocs, uI, uEmb, uRows, uResult, uResponse>>
    /\ UNCHANGED <<callLocals, patLastIndex, loopParity, concVars>>

\* storeChunks: one test of the for loop.  When it holds, the batch is cut
\* and embedded (or embedDocuments throws); when it fails, storeChunks
\* returns and processDocument resolves with the document id.
StoreBatch ==
    /\ uPc = "store"
    /\ IF uI < Len(uChunks)
       THEN LET batch == SubSeq(uChunks, uI + 1, Min2(uI + batchSize, Len(uChunks)))
                texts == [j \in 1..Len(batch) |-> batch[j].pageContent]
            IN  \E embedded \in BOOLEAN :
                    IF embedded
                    THEN /\ uEmb' = embedDocuments(texts)
                         /\ uPc' = "insert"
                         /\ UNCHANGED <<uThrewAt, uResult>>
                    ELSE /\ uPc' = "catch"
                         /\ uThrewAt' = "embed"
                         /\ UNCHANGED <<uEmb, uResult>>
       ELSE /\ uResult' = "resolved"
            /\ uPc' = "respond"
            /\ UNCHANGED <<uEmb, uThrewAt>>
    /\ UNCHANGED <<uReq, uText, uDocs, uChunks, uSplitter, uI, uRows, uStoreCalled,
                   uResponse>>
    /\ UNCHANGED <<callLocals, patLastIndex, loopParity, concVars>>

\* storeChunks: the chunkRecords of the batch and their insert, which
\* stores the rows or reports an error, which is thrown; then i += batchSize.
StoreInsert ==
    /\ uPc = "insert"
    /\ LET batch == SubSeq(uChunks, uI + 1, Min2(uI + batchSize, Len(uChunks)))
       IN  \E inserted \in BOOLEAN :
               IF inserted
               THEN /\ uRows' = uRows \o chunkRecords(DocumentId, batch, uEmb, uI)
                    /\ uI' = uI + batchSize
                    /\ uPc' = "store"
                    /\ uThrewAt' = uThrewAt
               ELSE /\ uPc' = "catch"
                    /\ uThrewAt' = "insert"
                    /\ UNCHANGED <<uRows, uI>>
    /\ uEmb' = <<>>
    /\ UNCHANGED <<uReq, uText, uDocs, uChunks, uSplitter, uResult, uStoreCalled,
                   uResponse>>
    /\ UNCHANGED <<callLocals, patLastIndex, loopParity, concVars>>

\* processDocument: the catch block, which throws a new Error: the promise
\* rejects.
ProcessCatch ==
    /\ uPc = "catch"
    /\ uResult' = "rejected"
    /\ uPc' = "respond"
    /\ UNCHANGED <<uReq, uText, uDocs, uChunks, uSplitter, uI, uEmb, uRows, uThrewAt,
                   uStoreCalled, uResponse>>
    /\ UNCHANGED <<callLocals, patLastIndex, loopParity, concVars>>

\* POST: the response after processDocument settled.
PostRespond ==
    /\ uPc = "respond"
    /\ uResponse' = routeStatus(uResult)
    /\ uPc' = "responded"
    /\ UNCHANGED <<uReq, uText, uDocs, uChunks, uSplitter, uI, uEmb, uRows, uResult,
                   uThrewAt, uStoreCalled>>
    /\ UNCHANGED <<callLocals, patLastIndex, loopParity, concVars>>

UploadNext ==
    \/ PostValidate \/ ExtractText \/ CreateDocumentRecord \/ CreateChunks
    \/ StoreBatch \/ StoreInsert \/ ProcessCatch \/ PostRespond

UploadSpec == UploadInit /\ [][UploadNext]_vars

\* ------------------------------------------------------------ two calls: steps
\* The arguments of the two calls.
ConcTexts ==
    TextsUpTo(MaxConcBlocks) \cup {ScenarioText, CaptionsText, ToleranceText}

\* Both calls are yet to be made, on a fresh splitter.
ConcInit ==
    /\ SplitterIdle
    /\ UploadIdle
    /\ ConcAt(ConcTexts, "new")

\* Call c is made: findTableSections on the shared pattern objects, then
\* the run to the first await; or findTableSections enters the loop it
\* never leaves, and from then on nothing else runs on the thread.
CallStart(c) ==
    /\ cHung = 0
    /\ cPc[c] = "new"
    /\ \E d \in {findTableSections(cText[c], patLastIndex)} :
       \E st \in {afterDetection(cText[c], d.regions)} :
           /\ patLastIndex' = d.lastIndex
           /\ IF d.returns
              THEN /\ cMatches' = [cMatches EXCEPT ![c] = d.regions]
                   /\ cPc' = [cPc EXCEPT ![c] = st.pc]
                   /\ cK' = [cK EXCEPT ![c] = st.k]
                   /\ cLast' = [cLast EXCEPT ![c] = st.lastIndex]
                   /\ cChunks' = [cChunks EXCEPT ![c] = st.chunks]
                   /\ cHung' = 0
              ELSE /\ cPc' = [cPc EXCEPT ![c] = "detecting"]
                   /\ cHung' = c
                   /\ UNCHANGED <<cMatches, cK, cLast, cChunks>>
    /\ UNCHANGED <<cText, callLocals, loopParity, uploadVars>>

\* The createDocuments call c awaits has completed: c runs to its next
\* await or to its return.
CallResume(c) ==
    /\ cHung = 0
    /\ cPc[c] \in {"awaitFast", "awaitBefore", "awaitRest"}
    /\ \E st \in {resumeCall(cText[c], cMatches[c],
                            [pc |-> cPc[c], k |-> cK[c], lastIndex |-> cLast[c],
                             chunks |-> cChunks[c]])} :
           /\ cPc' = [cPc EXCEPT ![c] = st.pc]
           /\ cK' = [cK EXCEPT ![c] = st.k]
           /\ cLast' = [cLast EXCEPT ![c] = st.lastIndex]
           /\ cChunks' = [cChunks EXCEPT ![c] = st.chunks]
    /\ UNCHANGED <<cText, cMatches, cHung, callLocals, patLastIndex, loopParity,
                   uploadVars>>

\* The loop of the call that hangs runs its body once more.
Spin ==
    /\ cHung # 0
    /\ loopParity' = 1 - loopParity
    /\ UNCHANGED <<callLocals, patLastIndex, uploadVars, concVars>>

ConcNext ==
    \/ \E c \in CallIds : CallStart(c)
    \/ \E c \in CallIds : CallResume(c)
    \/ Spin

\* When a call is made is up to its caller.  Once the thread is free, the
\* event loop resumes a call whose awaited createDocuments has completed;
\* and a loop that is running goes on running.
ConcSpec ==
    /\ ConcInit
    /\ [][ConcNext]_vars
    /\ \A c \in CallIds : WF_vars(CallResume(c))
    /\ WF_vars(Spin)

\* ------------------------------------------------------------ properties
Done == pc = "done"

\* Indices of the emitted chunks by kind.
TableChunkIdx == {i \in 1..Len(chunks) : chunks[i].metadata.type = "table"}
TextChunkIdx == {i \in 1..Len(chunks) : chunks[i].metadata.type = "text"}

\* The spans handed to the generic splitter.
SplitCalls == {calls[i] : i \in {j \in 1..Len(calls) : calls[j].kind = "split"}}

\* Offsets at which a line of t starts.
LineStarts(t) == {0} \cup {j + 1 : j \in {m \in 0..(Len(t) - 1) : At(t, m) = NL}}

\* C1: for every input text the call terminates and returns its chunks; in
\* particular expandTableContext reaches its return for every seed, also
\* for a seed on a table-looking line that is not the first line.
C1_Terminates == <>Done

\* C2: table atomicity: for every substring matched by a table pattern,
\* exactly one emitted chunk of type "table" holds that substring verbatim
\* in its table_content.
C2_TableAtomicity ==
    Done =>
        \A s \in 1..Len(seeds) :
            Cardinality({i \in TableChunkIdx :
                Includes(chunks[i].metadata.table_content, seeds[s][2])}) = 1

\* The three pipe-delimited lines of the scenario, its caption, and its
\* two paragraphs.
ScenarioRows == slice(ScenarioText, 28, 75)
ScenarioCaption == slice(ScenarioText, 18, 27)
ScenarioIntro == slice(ScenarioText, 0, 16)
ScenarioClosing == slice(ScenarioText, 77, 95)

ScenarioOutput ==
    /\ Len(chunks) = 3
    /\ chunks[1].metadata.type = "text"
    /\ chunks[1].pageContent = ScenarioIntro
    /\ chunks[2].metadata.type = "table"
    /\ Includes(chunks[2].metadata.header, ScenarioCaption)
    /\ Includes(chunks[2].metadata.table_content, ScenarioRows)
    /\ chunks[3].metadata.type = "text"
    /\ chunks[3].pageContent = ScenarioClosing

\* C3: on the scenario text (intro, caption "Table 2.1", three
\* pipe-delimited lines, closing paragraph) the call returns exactly three
\* chunks: the intro text chunk, one table chunk whose header contains the
\* caption and whose table content contains the three lines, and the
\* closing text chunk.
C3_Scenario == (text = ScenarioText) ~> (Done /\ ScenarioOutput)

\* Whether section s lies inside region r.
Inside(s, r) == r.start <= s.start /\ s.end <= r.end

\* The merged regions, and the table chunks, that hold section s.
RegionsOf(s) == {m \in 1..Len(tableMatches) : Inside(s, tableMatches[m])}
TableChunksOf(s) ==
    {i \in TableChunkIdx :
        chunks[i].src[1] <= s.start /\ s.end <= chunks[i].src[2]}

\* Pairs of expanded regions, the earlier first.
SectionPairs ==
    {p \in (1..Len(sections)) \X (1..Len(sections)) :
        p[1] # p[2] /\ sections[p[1]].start <= sections[p[2]].start}

\* No other expanded region reaches beyond the end of a before b starts.
Adjacent(a, b) ==
    ~\E c \in 1..Len(sections) :
        sections[c].start < b.start /\ sections[c].end > a.end

C5_SortedDisjoint ==
    /\ \A m \in 1..Len(tableMatches) :
           tableMatches[m].start <= tableMatches[m].end
    /\ \A m \in 1..(Len(tableMatches) - 1) :
           /\ tableMatches[m].start <= tableMatches[m + 1].start
           /\ tableMatches[m].end <= tableMatches[m + 1].start

\* Detection pushed a later region first, and the merge returned two
\* regions, one of them not empty.
C5_Witness ==
    /\ pc = "split"
    /\ Len(tableMatches) >= 2
    /\ \E m \in 1..Len(tableMatches) : tableMatches[m].start < tableMatches[m].end
    /\ \E i \in 1..(Len(sections) - 1) : sections[i].start > sections[i + 1].start

\* C6: no-table fallback: with zero pattern matches the call returns
\* exactly the chunks of the generic splitter applied once to the whole
\* text, and no table chunk.
C6_NoTableFallback ==
    (Done /\ seeds = <<>>) =>
        LET direct == createDocuments(text)
        IN  /\ Len(chunks) = Len(direct)
            /\ \A i \in 1..Len(direct) :
                   /\ chunks[i].pageContent = direct[i].pageContent
                   /\ chunks[i].metadata = direct[i].metadata
            /\ TableChunkIdx = {}
            /\ calls = <<[kind |-> "split", from |-> 0, to |-> Len(text)]>>

\* A text with no match whose generic split is one trimmed chunk.
C6_Witness ==
    /\ Done
    /\ seeds = <<>>
    /\ Len(chunks) = 1
    /\ Len(chunks[1].pageContent) < Len(text)

\* C7: no source text is dropped: every offset of the text lies in a span
\* handed to the generic splitter or in the raw table text of a table
\* chunk.
C7_NoTextDropped ==
    Done =>
        \A o \in 0..(Len(text) - 1) :
            \/ \E c \in SplitCalls : c.from <= o /\ o < c.to
            \/ \E i \in TableChunkIdx :
                   chunks[i].src[1] <= o /\ o < chunks[i].src[2]

\* A run with text before, between and after two regions.
C7_Witness ==
    /\ Done
    /\ Cardinality(TableChunkIdx) = 2
    /\ Cardinality(SplitCalls) = 3
    /\ \E c \in SplitCalls : c.from = 0 /\ c.to < Len(text)

\* C8: order preservation: the chunks of the text before a region precede
\* the region's table chunk, which precedes the chunks of the text after
\* it; table chunks come in increasing order of region start, and text
\* chunks in the order of their spans.
C8_SourceOrder ==
    Done =>
        /\ \A i \in TableChunkIdx : \A j \in TextChunkIdx :
               /\ chunks[j].src[2] <= chunks[i].src[1] => j < i
               /\ chunks[j].src[1] >= chunks[i].src[2] => j > i
        /\ \A i, j \in TableChunkIdx :
               i < j => chunks[i].src[1] < chunks[j].src[1]
        /\ \A i, j \in TextChunkIdx :
               i < j => chunks[i].src[2] <= chunks[j].src[1]

\* Text chunk, table chunk, text chunk, table chunk, text chunk.
C8_Witness ==
    /\ Done
    /\ Len(chunks) = 5
    /\ TableChunkIdx = {2, 4}

\* The offsets of merged region m.
RegionOffsets(m) == tableMatches[m].start..(tableMatches[m].end - 1)

\* The chunks whose content quotes offset o of the text.
ChunksQuoting(o) ==
    {i \in 1..Len(chunks) : chunks[i].ctxFrom <= o /\ o < chunks[i].ctxTo}

\* C9, as claimed: the characters of a merged region appear in the content
\* of exactly one chunk, its own table chunk: in no text chunk and in no
\* other table chunk's context.
C9_RegionInOneChunk ==
    Done =>
        \A m \in 1..Len(tableMatches) : \A o \in RegionOffsets(m) :
            /\ Cardinality(ChunksQuoting(o)) = 1
            /\ \A i \in ChunksQuoting(o) :
                   /\ chunks[i].metadata.type = "table"
                   /\ chunks[i].src = <<tableMatches[m].start, tableMatches[m].end>>

\* C9, amended: the characters of a merged region lie in the raw table
\* text of exactly one table chunk, its own, and in no span handed to the
\* generic splitter; the context of another table chunk may quote them.
C9_RegionInOneTable ==
    Done =>
        \A m \in 1..Len(tableMatches) : \A o \in RegionOffsets(m) :
            /\ \A c \in SplitCalls : ~(c.from <= o /\ o < c.to)
            /\ \A i \in TextChunkIdx : i \notin ChunksQuoting(o)
            /\ LET holders == {i \in TableChunkIdx :
                                  chunks[i].src[1] <= o /\ o < chunks[i].src[2]}
               IN  /\ Cardinality(holders) = 1
                   /\ \A i \in holders :
                          chunks[i].src = <<tableMatches[m].start, tableMatches[m].end>>

\* A region that is not empty, quoted by the context of another table
\* chunk, with text split after it.
C9_Witness ==
    /\ Done
    /\ \E m \in 1..Len(tableMatches) :
           /\ RegionOffsets(m) # {}
           /\ \E o \in RegionOffsets(m) : Cardinality(ChunksQuoting(o)) >= 2
           /\ \E c \in SplitCalls : c.from = tableMatches[m].end

\* C10: a table is never split mid-row: no line that satisfies the
\* table-line predicate is handed, wholly or partly, to the generic
\* splitter; every such line lies inside one merged region.
C10_NoRowSplit ==
    Done =>
        \A ls \in LineStarts(text) :
            LET le == findLineEnd(text, ls)
            IN  isTableLine(slice(text, ls, le)) =>
                    /\ \A c \in SplitCalls : c.to <= ls \/ c.from >= le
                    /\ \E m \in 1..Len(tableMatches) :
                           tableMatches[m].start <= ls /\ le <= tableMatches[m].end

\* C11: empty input: splitTextIntoDocuments("") returns an empty chunk
\* sequence, with no text chunk and no table chunk.
C11_EmptyInput == (Done /\ text = <<>>) => chunks = <<>>

\* The call on the empty string has returned, by way of the generic
\* splitter.
C11_Witness ==
    /\ Done
    /\ text = <<>>
    /\ calls = <<[kind |-> "split", from |-> 0, to |-> 0]>>

\* C12: idempotence of detection: for every table chunk the call returns,
\* findTableSections run on the chunk's table_content alone returns exactly
\* one merged region.
C12_DetectionIdempotent ==
    Done =>
        \A i \in TableChunkIdx :
            LET d == findTableSections(chunks[i].metadata.table_content,
                                       FreshLastIndex)
            IN  d.returns /\ Len(d.regions) = 1

\* The lines of t that are pipe-delimited, by their start offsets, and the
\* number of pipes on a line.
PipeLines(t) ==
    {ls \in LineStarts(t) :
        LET line == slice(t, ls, findLineEnd(t, ls))
        IN  \E i \in 0..(Len(line) - 1) : MatchRow(line, i) # -1}
PipeCount(t, ls) ==
    Cardinality({j \in ls..(findLineEnd(t, ls) - 1) : At(t, j) = "|"})

\* A text with an irregular table: its pipe-delimited lines differ in their
\* column counts, or it has pipe-delimited lines but no separator row, or
\* no caption.
Irregular(t) ==
    /\ PipeLines(t) # {}
    /\ \/ \E a, b \in PipeLines(t) : PipeCount(t, a) # PipeCount(t, b)
       \/ \A i \in 0..Len(t) : MatchSeparator(t, i) = -1
       \/ \A i \in 0..Len(t) :
              /\ MatchTable(t, i) = -1
              /\ MatchSchedule(t, i) = -1
              /\ MatchExhibit(t, i) = -1

\* C13: irregular tables are not an error: on a text whose pipe-delimited
\* lines have inconsistent column counts, no separator row or no caption,
\* the call completes with its chunk sequence (and throws nothing).
C13_IrregularCompletes == Irregular(text) ~> Done

\* C14: invalid input fails fast: when the argument is not a string the
\* call is in the InvalidInput error state, or still at its entry, having
\* run neither detection nor the generic splitter, and it has no chunk.
C14_InvalidInputFailsFast ==
    ~textIsString =>
        /\ \/ pc = "invalid"
           \/ pc = "find" /\ pat = 1 /\ patLastIndex = FreshLastIndex
        /\ calls = <<>>
        /\ chunks = <<>>

\* Between the steps of the thread no pattern object holds a match
\* position, and a call that has returned has returned the chunks it
\* returns when run alone.
ConcNoCarryOver ==
    /\ cHung = 0 => patLastIndex = FreshLastIndex
    /\ \A c \in CallIds :
           cPc[c] = "done" => cChunks[c] = splitAlone(cText[c]).chunks

\* C15: concurrent invocation is safe: of two calls interleaved on the
\* shared splitter at their suspension points, a call that is suspended
\* returns, and returns the chunk sequence it returns when run alone.
C15_ConcurrentSafe ==
    \A c \in CallIds :
        (cPc[c] \in {"awaitFast", "awaitBefore", "awaitRest"})
            ~> (cPc[c] = "done" /\ cChunks[c] = splitAlone(cText[c]).chunks)

\* C16: stored sequence position matches emission order: once storeChunks
\* has completed for a document with n chunks, the rows of the document
\* carry the chunk_index values 0..n-1, each once, and the row with
\* chunk_index k holds the content and metadata of the k-th emitted chunk
\* (0-based), across the batch boundaries.
C16_IndexMatchesOrder ==
    uResult = "resolved" =>
        /\ Len(uRows) = Len(uChunks)
        /\ \A r \in 1..Len(uRows) : uRows[r].document_id = DocumentId
        /\ \A n \in 0..(Len(uChunks) - 1) :
               LET holders == {r \in 1..Len(uRows) : uRows[r].chunk_index = n}
               IN  /\ Cardinality(holders) = 1
                   /\ \A r \in holders :
                          /\ uRows[r].content = uChunks[n + 1].pageContent
                          /\ uRows[r].metadata = uChunks[n + 1].metadata

\* storeChunks completed for a document whose chunks fill two batches and
\* part of a third.
C16_Witness ==
    /\ uResult = "resolved"
    /\ Len(uChunks) > 2 * batchSize
    /\ Len(uRows) = Len(uChunks)

\* C17: chunking errors are surfaced: when createChunks raised an error,
\* processDocument does not resolve with a document id, and rejects;
\* storeChunks is not called and no chunk row is stored; and the response
\* of the route is the error status, not success.
C17_ChunkErrorSurfaced ==
    uThrewAt = "chunk" =>
        /\ uResult # "resolved"
        /\ uPc \in {"respond", "responded"} => uResult = "rejected"
        /\ ~uStoreCalled
        /\ uRows = <<>>
        /\ uResponse \in {0, 500}
        /\ uPc = "responded" => uResponse = 500

\* createChunks raised an error after the document row was stored, and
\* the route has answered.
C17_Witness ==
    /\ uThrewAt = "chunk"
    /\ uPc = "responded"
    /\ uResult = "rejected"
    /\ uResponse = 500
    /\ Len(uDocs) = 1

\* The line of t that holds offset i, by its start offset; the line
\* feed that ends a line belongs to it.
LineStartOf(t, i) == SetMax({ls \in LineStarts(t) : ls <= i})

\* Whether the line of t that starts at ls is table-looking, and whether
\* it is pipe-delimited.
TableLooking(t, ls) == isTableLine(slice(t, ls, findLineEnd(t, ls)))
PipeDelimited(t, ls) == ls \in PipeLines(t)

\* The maximal run of consecutive table-looking lines that starts at the
\* line at ls, and the one that ends there, by their start offsets.
ForwardRun(t, ls) ==
    {l \in LineStarts(t) :
        /\ l >= ls
        /\ \A m \in LineStarts(t) : (ls <= m /\ m <= l) => TableLooking(t, m)}
BackwardRun(t, ls) ==
    {l \in LineStarts(t) :
        /\ l <= ls
        /\ \A m \in LineStarts(t) : (l <= m /\ m <= ls) => TableLooking(t, m)}

\* C18: forward expansion is maximal: for every seed on a table-looking
\* line, the end of the region expandTableContext returned is the end of
\* the last line of the maximal run of table-looking lines that starts at
\* the seed's line; and when the line after the seed's line is
\* pipe-delimited, the end is at or beyond the end of that line.
C18_ForwardMaximal ==
    \A s \in 1..Len(sections) :
        LET ls == LineStartOf(text, seeds[s][1])
            le == findLineEnd(text, ls)
        IN  /\ TableLooking(text, ls) =>
                   sections[s].end = findLineEnd(text, SetMax(ForwardRun(text, ls)))
            /\ (le < Len(text) /\ PipeDelimited(text, le + 1)) =>
                   sections[s].end >= findLineEnd(text, le + 1)

\* C19: backward expansion is maximal: for a seed at the start of a
\* table-looking line, expandTableContext returns, and the start of the
\* region it returns is the start of the first line of the maximal run of
\* table-looking lines that ends at the seed's line.
C19_BackwardMaximal ==
    (/\ pc = "expandBack"
     /\ startIndex \in LineStarts(text)
     /\ TableLooking(text, startIndex))
        ~> (/\ pc = "expandFwd"
            /\ TableLooking(text, LineStartOf(text, startIndex))
            /\ start = SetMin(BackwardRun(text, LineStartOf(text, startIndex))))

\* The table chunk of merged region m: the m-th table chunk.
TableChunkOf(m) ==
    CHOOSE i \in TableChunkIdx :
        Cardinality({j \in TableChunkIdx : j <= i}) = m

\* C20: table chunk layout: for the merged region [start, end) with
\* header h in a text of length L, the content of the table chunk is the
\* context text[max(0, start - 200) .. start), the marker "[TABLE: h]", the
\* raw text[start .. end), the marker "[END TABLE]" and the context
\* text[end .. min(L, end + 200)), in this order, each marker on a line of
\* its own; the contexts are min(200, start) and min(200, L - end) long;
\* the metadata holds type "table", h and the raw text.
C20_TableChunkLayout ==
    Done =>
        /\ Cardinality(TableChunkIdx) = Len(tableMatches)
        /\ \A m \in 1..Len(tableMatches) :
               LET r == tableMatches[m]
                   c == chunks[TableChunkOf(m)]
                   L == Len(text)
                   before == SubSeq(text, Max2(0, r.start - 200) + 1, r.start)
                   raw == SubSeq(text, r.start + 1, r.end)
                   after == SubSeq(text, r.end + 1, Min2(L, r.end + 200))
               IN  /\ c.pageContent =
                          before \o <<"\n", "\n">>
                          \o <<"[", "T", "A", "B", "L", "E", ":", " ">> \o r.header
                          \o <<"]", "\n">> \o raw \o <<"\n">>
                          \o <<"[", "E", "N", "D", " ", "T", "A", "B", "L", "E", "]">>
                          \o <<"\n", "\n">> \o after
                   /\ Len(before) = Min2(200, r.start)
                   /\ Len(after) = Min2(200, L - r.end)
                   /\ c.metadata =
                          [type |-> "table", header |-> r.header, table_content |-> raw]

\* A table chunk whose region has more than 200 characters before it and
\* more than 200 after it, so that both contexts are cut to 200.
C20_Witness ==
    /\ Done
    /\ \E m \in 1..Len(tableMatches) :
           /\ tableMatches[m].start > ContextChars
           /\ Len(text) - tableMatches[m].end > ContextChars
           /\ Len(chunks[TableChunkOf(m)].pageContent) > 2 * ContextChars

\* C21: one chunk per region: the number of chunks of type "table" the call
\* returns equals the number of merged regions findTableSections returned,
\* and the raw table text of each such chunk is not empty.
C21_OneChunkPerRegion ==
    Done =>
        /\ Cardinality(TableChunkIdx) = Len(tableMatches)
        /\ \A i \in TableChunkIdx : chunks[i].metadata.table_content # <<>>

\* The seeds merged into merged region m, by their index in detection
\* order, and their order by region start (seeds of equal start in
\* detection order).
SeedsMergedInto(m) ==
    {i \in 1..Len(sections) :
        /\ tableMatches[m].start <= sections[i].start
        /\ sections[i].start <= tableMatches[m].end}
RankIn(m, i) ==
    1 + Cardinality({j \in SeedsMergedInto(m) :
                        \/ sections[j].start < sections[i].start
                        \/ sections[j].start = sections[i].start /\ j < i})
NthSeed(m, n) == CHOOSE i \in SeedsMergedInto(m) : RankIn(m, i) = n

\* The matched strings of the first n seeds of region m, joined by a comma
\* and a space.
RECURSIVE JoinedMatches(_, _)
JoinedMatches(m, n) ==
    IF n = 0 THEN <<>>
    ELSE IF n = 1 THEN seeds[NthSeed(m, 1)][2]
    ELSE JoinedMatches(m, n - 1) \o <<",", " ">> \o seeds[NthSeed(m, n)][2]

\* C22: merged headers: the header of a merged region is the join, by a
\* comma and a space, of the matched strings of all seeds merged into it,
\* in increasing order of region start; it has one part per merged seed,
\* and every seed is merged into exactly one region.
C22_MergedHeaders ==
    pc \in {"split", "done"} =>
        /\ Len(seeds) = Len(sections)
        /\ \A m \in 1..Len(tableMatches) :
               tableMatches[m].header =
                   JoinedMatches(m, Cardinality(SeedsMergedInto(m)))
        /\ \A i \in 1..Len(sections) :
               Cardinality({m \in 1..Len(tableMatches) : i \in SeedsMergedInto(m)}) = 1

\* A region of three seeds or more, detected in another order than that of
\* their starts.
C22_Witness ==
    /\ Done
    /\ \E m \in 1..Len(tableMatches) :
           /\ Cardinality(SeedsMergedInto(m)) >= 3
           /\ \E i, j \in SeedsMergedInto(m) :
                  i < j /\ sections[i].start > sections[j].start

\* C23: a pure, repeatable transform: a call that returns leaves the scan
\* position of every table pattern at its initial value, and returns the
\* chunk sequence that every earlier call with the same text returned on
\* the same splitter, whatever texts were processed in between.
C23_Repeatable ==
    Done =>
        /\ patLastIndex = FreshLastIndex
        /\ \A i \in 1..Len(returned) :
               returned[i].text = text => returned[i].chunks = chunks

\* The third call has returned; it has the text of the first call, which
\* has table chunks, and the call in between had another text with a table
\* chunk.
C23_Witness ==
    /\ Done
    /\ Len(returned) = 2
    /\ returned[1].text = text
    /\ returned[2].text # text
    /\ TableChunkIdx # {}
    /\ \E i \in 1..Len(returned[2].chunks) :
           returned[2].chunks[i].metadata.type = "table"

\* The region [r.start, r.end) lies in the text, and it holds offset o.
InBounds(r) == 0 <= r.start /\ r.start <= r.end /\ r.end <= Len(text)
Holds(r, o) == r.start <= o /\ o < r.end

\* C24: region bounds: every region expandTableContext produced and every
\* merged region mergeOverlappingSections returned satisfies
\* 0 <= start <= end <= text length, and holds the offset of every seed
\* merged into it.
C24_RegionBounds ==
    /\ \A i \in 1..Len(sections) :
           InBounds(sections[i]) /\ Holds(sections[i], seeds[i][1])
    /\ \A m \in 1..Len(tableMatches) :
           /\ InBounds(tableMatches[m])
           /\ \A i \in SeedsMergedInto(m) : Holds(tableMatches[m], seeds[i][1])

\* C25: merged regions are well separated: for consecutive regions r, s
\* that mergeOverlappingSections returned, s.start > r.end + 50, where
\* r.end is the end after all merges into r.
C25_WellSeparated ==
    \A m \in 1..(Len(tableMatches) - 1) :
        tableMatches[m + 1].start > tableMatches[m].end + 50

\* A chain of merges has moved the end of a region beyond the tolerance of
\* its first seed, and the next region starts one character beyond the
\* tolerance of that end.
C25_Witness ==
    /\ Done
    /\ \E m \in 1..(Len(tableMatches) - 1) :
           /\ Cardinality(SeedsMergedInto(m)) >= 3
           /\ tableMatches[m].end > tableMatches[m].start + MergeTolerance
           /\ tableMatches[m + 1].start = tableMatches[m].end + MergeTolerance + 1

\* The table chunks created and the spans handed to the generic splitter so
\* far, by their position in the order of the calls.
TableCallIdx == {i \in 1..Len(calls) : calls[i].kind = "table"}
SplitCallIdx == {i \in 1..Len(calls) : calls[i].kind = "split"}

\* C26: the emission cursor only moves forward: lastIndex never decreases
\* and always equals the end of the last emitted region (0 before the
\* first), so the spans handed to the generic splitter are pairwise
\* disjoint, each starting where an earlier one ended or later, and no
\* span is split twice.
C26_CursorForward ==
    /\ [](/\ lastIndex = IF TableCallIdx = {} THEN 0
                         ELSE calls[SetMax(TableCallIdx)].to
          /\ \A i, j \in SplitCallIdx : i < j => calls[i].to <= calls[j].from)
    /\ [][lastIndex' >= lastIndex]_vars

\* Two regions were emitted, the cursor moved forward at each, and text
\* was split before the first, between the two and after the second.
C26_Witness ==
    /\ Done
    /\ Len(tableMatches) = 2
    /\ 0 < tableMatches[1].end
    /\ tableMatches[1].end < tableMatches[2].end
    /\ lastIndex = tableMatches[2].end
    /\ Cardinality(SplitCallIdx) = 3

\* Plain prose: words, spaces and line breaks only (so no pipe, no dash, no
\* colon), and no caption.
LowerCase ==
    {"a", "b", "c", "d", "e", "f", "g", "h", "i", "j", "k", "l", "m", "n", "o",
     "p", "q", "r", "s", "t", "u", "v", "w", "x", "y", "z"}
PlainProse(t) ==
    /\ \A i \in 0..(Len(t) - 1) :
           At(t, i) \in LowerCase \cup UpperCase \cup Digits \cup {" ", "\n"}
    /\ \A i \in 0..Len(t) :
           /\ MatchTable(t, i) = -1
           /\ MatchSchedule(t, i) = -1
           /\ MatchExhibit(t, i) = -1

\* C27: no table in plain prose: on a text of words, spaces and line breaks
\* only, blank and whitespace-only lines included, with no pipe, dash,
\* colon or caption, detection yields no seed and the call returns no
\* table chunk.
C27_NoTableInProse ==
    (textIsString /\ PlainProse(text)) =>
        /\ seeds = <<>>
        /\ TableChunkIdx = {}

\* C28: batch storage is sequential and prefix-closed: storeChunks embeds
\* and inserts batches of at most 10 chunks in order, a batch is inserted
\* only with the embeddings of its own chunks, and when the embedding or
\* the insertion of a batch fails, exactly the chunks of the batches before
\* it are stored and none of it or of a later batch, and the document
\* record created earlier is still there with status "active".
C28_PrefixClosed ==
    /\ uI % 10 = 0
    /\ Len(uRows) = Min2(uI, Len(uChunks))
    /\ \A r \in 1..Len(uRows) :
           /\ uRows[r].content = uChunks[r].pageContent
           /\ uRows[r].embedding = <<"embedding", uChunks[r].pageContent>>
    /\ uPc = "insert" =>
           /\ Len(uEmb) = Min2(10, Len(uChunks) - uI)
           /\ Len(uEmb) >= 1
    /\ uThrewAt \in {"embed", "insert"} =>
           /\ uI < Len(uChunks)
           /\ Len(uRows) = uI
           /\ Len(uDocs) = 1
           /\ uDocs[1].status = "active"

\* The insert of the third batch failed after two batches were stored, and
\* the route has answered.
C28_Witness ==
    /\ uPc = "responded"
    /\ uThrewAt = "insert"
    /\ Len(uChunks) > 20
    /\ Len(uRows) = 20
    /\ uDocs # <<>>
    /\ uResponse = 500

\* C29: table-aware chunking is chosen by document type only: createChunks
\* uses the table-aware splitter exactly when the document type is
\* loan_handbook, regulatory_manual, policy_document, rate_sheet or
\* compliance_matrix; for any other type the output of the standard
\* splitter is returned, and no chunk (and no stored row) has metadata type
\* "table", whatever the text contains.
C29_SplitterByType ==
    uSplitter # "none" =>
        /\ uSplitter = "tableSplitter" <=>
               uReq.documentType \in {"loan_handbook", "regulatory_manual",
                                      "policy_document", "rate_sheet",
                                      "compliance_matrix"}
        /\ uSplitter = "standardSplitter" <=>
               uReq.documentType \notin {"loan_handbook", "regulatory_manual",
                                         "policy_document", "rate_sheet",
                                         "compliance_matrix"}
        /\ uSplitter = "standardSplitter" =>
               /\ \A i \in 1..Len(uChunks) : uChunks[i].metadata.type # "table"
               /\ \A r \in 1..Len(uRows) : uRows[r].metadata.type # "table"
               /\ (uStoreCalled /\ uText # LongDocument) =>
                      uChunks = createDocuments(uText)

\* A document of another type whose text is a table row: it was chunked by
\* the standard splitter, and its chunk is stored.
C29_Witness ==
    /\ uReq.documentType = "general"
    /\ uText = Row
    /\ uSplitter = "standardSplitter"
    /\ uResult = "resolved"
    /\ Len(uRows) = 1
    /\ uRows[1].content = Row

====
